---- MODULE Spec2Model ----
(***************************************************************************)
(* A model of the investing-mcp server: src/src/server.py starts a FastMCP *)
(* host and registers the six Polygon tools of src/src/tools/polygon.py.   *)
(*                                                                         *)
(* Texts are sequences of tokens (strings): the words of the literals of   *)
(* the source, the formatted numbers, and the characters of the texts that *)
(* the code slices (the descriptions).  White space and line breaks are    *)
(* left out.  The emoji of the source are written as ASCII tokens:         *)
(*   [X] cross mark, [chart] bar chart, [money] money bag, [up] rising     *)
(*   chart, [down] falling chart, [flat] right arrow, [info] information,  *)
(*   [green] green circle, [red] red circle.                               *)
(* Money amounts are integers counting hundredths (15000 is 150.00), so    *)
(* that the two-decimal formatting is exact.                               *)
(***************************************************************************)
EXTENDS Integers, Sequences, FiniteSets, TLC

VARIABLES
    envAtStart,       \* POLYGON_API_KEY in the process environment at process start
    dotenvFile,       \* the POLYGON_API_KEY entry of the .env file
    osEnviron,        \* POLYGON_API_KEY in os.environ, now
    POLYGON_API_KEY,  \* the module global of tools/polygon.py
    pc,               \* how far the start-up of server.py has come
    registry,         \* the tool names registered with the FastMCP host
    call,             \* the tool invocation being served
    request,          \* the GET request make_polygon_request issued for it
    response,         \* what the upstream did with the request
    fetched,          \* what make_polygon_request gave back to its caller
    result            \* what the tool gave back to the host

vars == <<envAtStart, dotenvFile, osEnviron, POLYGON_API_KEY, pc, registry,
          call, request, response, fetched, result>>

(***************************************************************************)
(* Bounds of the model.                                                    *)
(***************************************************************************)
MaxBars == 2      \* the longest results list of an aggregates response
MaxItems == 1     \* the longest results list of a news or search response

(***************************************************************************)
(* Values and small helpers.                                               *)
(***************************************************************************)
Unset == "<unset>"        \* a variable the environment does not hold
Unbound == "<unbound>"    \* a module global not assigned yet
Absent == "<absent>"      \* a key a JSON object does not hold
NA == "N/A"

Min(a, b) == IF a < b THEN a ELSE b
Max(a, b) == IF a > b THEN a ELSE b
Abs(n) == IF n < 0 THEN -n ELSE n
Last(s) == s[Len(s)]

\* s[:n] of Python for n >= 0
Take(s, n) == SubSeq(s, 1, Min(n, Len(s)))

\* s[k:] of Python for any integer k: a negative k counts from the end
SliceFrom(s, k) ==
    LET start == IF k >= 0 THEN Min(k, Len(s)) ELSE Max(Len(s) + k, 0)
    IN  SubSeq(s, start + 1, Len(s))

\* all sequences of indices 1..n of length 0..len
RECURSIVE IndexLists(_, _)
IndexLists(n, len) ==
    IF len = 0 THEN {<<>>}
    ELSE LET shorter == IndexLists(n, len - 1)
         IN  shorter \cup {Append(s, i) : s \in {t \in shorter : Len(t) = len - 1}, i \in 1..n}

\* a JSON object without the key k
Drop(obj, k) == [x \in DOMAIN obj \ {k} |-> obj[x]]
Has(obj, k) == k \in DOMAIN obj

(***************************************************************************)
(* str.upper() on a symbol, a sequence of characters.                      *)
(***************************************************************************)
UpperChar(c) ==
    CASE c = "a" -> "A"
      [] c = "p" -> "P"
      [] c = "l" -> "L"
      [] OTHER -> c

Upper(s) == [i \in DOMAIN s |-> UpperChar(s[i])]

\* the characters of a text as one token
RECURSIVE Str(_)
Str(s) == IF s = <<>> THEN "" ELSE Head(s) \o Str(Tail(s))

Symbols == {<<"A", "A", "P", "L">>, <<"a", "a", "p", "l">>, <<"A", "a", "p", "L">>}

(***************************************************************************)
(* Number formatting.                                                      *)
(***************************************************************************)
Pad2(n) == IF n < 10 THEN "0" \o ToString(n) ELSE ToString(n)
Pad3(n) == IF n < 10 THEN "00" \o ToString(n)
           ELSE IF n < 100 THEN "0" \o ToString(n) ELSE ToString(n)

\* f"{x:.2f}" of an amount of x hundredths
Fmt2f(x) ==
    (IF x < 0 THEN "-" ELSE "") \o ToString(Abs(x) \div 100) \o "." \o Pad2(Abs(x) % 100)

\* f"{n:,}" of an integer
RECURSIVE GroupThousands(_)
GroupThousands(n) ==
    IF n < 1000 THEN ToString(n)
    ELSE GroupThousands(n \div 1000) \o "," \o Pad3(n % 1000)

FmtCommas(n) == (IF n < 0 THEN "-" ELSE "") \o GroupThousands(Abs(n))

\* a / b rounded to the nearest integer, b # 0
RoundDiv(a, b) ==
    LET n == IF b < 0 THEN -a ELSE a
        d == Abs(b)
    IN  IF n >= 0 THEN (2 * n + d) \div (2 * d) ELSE -((2 * (-n) + d) \div (2 * d))

\* datetime.fromtimestamp(t / 1000) of an epoch in milliseconds, as the pair
\* (day ordinal, minute of the day); the local zone is taken to be UTC
EpochSeconds(t) == t \div 1000
DayOf(t) == EpochSeconds(t) \div 86400
MinuteOf(t) == (EpochSeconds(t) % 86400) \div 60

\* strftime('%Y-%m-%d') of a day ordinal: the calendar is not modelled, a day
\* is written by its ordinal
FmtDay(d) == "day" \o ToString(d)
\* strftime('%Y-%m-%d') and strftime('%Y-%m-%d %H:%M') of an epoch in milliseconds
FmtDate(t) == FmtDay(DayOf(t))
FmtDateTime(t) ==
    FmtDay(DayOf(t)) \o " " \o Pad2(MinuteOf(t) \div 60) \o ":" \o Pad2(MinuteOf(t) % 60)

\* str(True), str(False)
PyBool(b) == IF b THEN "True" ELSE "False"

(***************************************************************************)
(* The upstream's JSON: the objects a results collection can hold.  A key  *)
(* the object lacks is a key outside its DOMAIN.                           *)
(***************************************************************************)
BarKeys == <<"o", "h", "l", "c", "v", "t">>

UpBar   == [o |-> 15000, h |-> 15500, l |-> 14900, c |-> 15250, v |-> 1234567, t |-> 120600000]
DownBar == [o |-> 15250, h |-> 15300, l |-> 15000, c |-> 15100, v |-> 987, t |-> 207000000]
FlatBar == [o |-> 300, h |-> 300, l |-> 300, c |-> 300, v |-> 0, t |-> 293400000]
ZeroOpenBar == [o |-> 0, h |-> 100, l |-> 0, c |-> 100, v |-> 1000, t |-> 379800000]

\* the bars any position of a results list can hold
GoodBars == <<UpBar, DownBar>>
\* the bars only the last position holds: bars lacking one key, a flat bar, a bar opening at 0
OddBars == [i \in 1..Len(BarKeys) |-> Drop(UpBar, BarKeys[i])] \o <<FlatBar, ZeroOpenBar>>
AllBars == GoodBars \o OddBars

\* the results lists of an aggregates response, as lists of indices into AllBars
AggLists ==
    {idx \in IndexLists(Len(AllBars), MaxBars) :
        \A i \in 1..Len(idx) : i < Len(idx) => idx[i] <= Len(GoodBars)}

ShortDescription == <<"M", "a", "k", "e", "s", " ", "p", "h", "o", "n", "e", "s">>
LongDescription == [i \in 1..201 |-> "d"]

TickerKeys == <<"name", "ticker", "market", "primary_exchange", "type", "currency_name",
                "active", "homepage_url", "description", "market_cap">>

FullTicker ==
    [name |-> "Apple Inc.", ticker |-> "TICK", market |-> "stocks",
     primary_exchange |-> "XNAS", type |-> "CS", currency_name |-> "usd",
     active |-> TRUE, homepage_url |-> "https://www.apple.com",
     description |-> ShortDescription, market_cap |-> 1234567890]

\* the results objects of a ticker-details response: complete, with a long
\* description, lacking one key, and the empty object
AllTickers ==
    <<FullTicker, [FullTicker EXCEPT !.description = LongDescription]>>
    \o [i \in 1..Len(TickerKeys) |-> Drop(FullTicker, TickerKeys[i])]
    \o << <<>> >>

ArticleKeys == <<"title", "description", "author", "published_utc", "article_url">>

FullArticle ==
    [title |-> "Apple rallies", description |-> ShortDescription, author |-> "Ann",
     published_utc |-> "2024-01-02T03:04:05Z", article_url |-> "https://news.example/1"]

AllArticles ==
    <<FullArticle, [FullArticle EXCEPT !.description = LongDescription]>>
    \o [i \in 1..Len(ArticleKeys) |-> Drop(FullArticle, ArticleKeys[i])]

MatchKeys == <<"ticker", "name", "market", "primary_exchange">>

FullMatch ==
    [ticker |-> "TICK", name |-> "Apple Inc.", market |-> "stocks", primary_exchange |-> "XNAS"]

AllMatches == <<FullMatch>> \o [i \in 1..Len(MatchKeys) |-> Drop(FullMatch, MatchKeys[i])]

\* a JSON object that is no results collection of any endpoint
JunkObject == [message |-> "unexpected"]

(***************************************************************************)
(* What the upstream does with a request.  An outcome is described by a    *)
(* record of plain values; Response builds the response from it.           *)
(*   kind   "http" (a response came back) or "failure" (the network failed)*)
(*   http   the HTTP status                                                *)
(*   text   the raw body of a response whose status is not 200             *)
(*   status, error, market   those keys of a JSON body, or Absent          *)
(*   shape  of the body's results: "absent", "list" or "object"            *)
(*   idx    the results, as indices into the endpoint's pool of objects    *)
(***************************************************************************)
Outcome(kind, http, text, status, error, market, shape, idx) ==
    [kind |-> kind, http |-> http, text |-> text, status |-> status, error |-> error,
     market |-> market, shape |-> shape, idx |-> idx]

StatusValues == {"OK", "DELAYED", "ERROR", Absent}

NetworkFailures == {Outcome("failure", 0, "", Absent, Absent, Absent, "absent", <<>>)}

HttpErrors ==
    {Outcome("http", h, t, Absent, Absent, Absent, "absent", <<>>) :
        h \in {201, 404, 500}, t \in {"", "Not Found"}}

\* HTTP 200 with a JSON object: results absent, a list, or (where a list is
\* expected) some other object
Ok200(errors, lists) ==
    {Outcome("http", 200, "", s, e, Absent, "absent", <<>>) : s \in StatusValues, e \in errors}
    \cup {Outcome("http", 200, "", s, e, Absent, "list", l) :
            s \in StatusValues, e \in errors, l \in lists}
    \cup {Outcome("http", 200, "", s, e, Absent, "object", <<>>) :
            s \in StatusValues, e \in errors}

AggOutcomes(errors) == Ok200(errors, AggLists) \cup HttpErrors \cup NetworkFailures

ItemOutcomes(n) == Ok200({Absent}, IndexLists(n, MaxItems)) \cup HttpErrors \cup NetworkFailures

\* ticker details: results is an object of AllTickers, or absent, or a list
DetailsOutcomes ==
    {Outcome("http", 200, "", s, Absent, Absent, "absent", <<>>) : s \in StatusValues}
    \cup {Outcome("http", 200, "", s, Absent, Absent, "object", <<i>>) :
            s \in StatusValues, i \in 1..Len(AllTickers)}
    \cup {Outcome("http", 200, "", s, Absent, Absent, "list", <<1>>) : s \in StatusValues}
    \cup HttpErrors \cup NetworkFailures

MarketOutcomes ==
    {Outcome("http", 200, "", s, Absent, m, sh, <<>>) :
        s \in StatusValues, m \in {"open", "closed", "extended-hours", Absent},
        sh \in {"absent", "list"}}
    \cup HttpErrors \cup NetworkFailures

\* the response an outcome describes; pool holds the objects of the endpoint
Response(up, pool) ==
    [kind |-> up.kind, http |-> up.http, text |-> up.text,
     body |-> [status |-> up.status, error |-> up.error, market |-> up.market,
               results |-> [shape |-> up.shape,
                            items |-> IF up.shape = "object" /\ up.idx = <<>>
                                      THEN <<JunkObject>>
                                      ELSE [i \in DOMAIN up.idx |-> pool[up.idx[i]]]]]]

NoResponse == Response(Outcome("none", 0, "", Absent, Absent, Absent, "absent", <<>>), <<>>)

\* data.get(key, default) for the text keys of a body
GetOr(value, default) == IF value = Absent THEN default ELSE value

\* bool(data.get("results")): None, [] and {} are false
Truthy(results) ==
    CASE results.shape = "absent" -> FALSE
      [] results.shape = "list" -> results.items # <<>>
      [] results.shape = "object" -> DOMAIN results.items[1] # {}

(***************************************************************************)
(* Returning and raising.                                                  *)
(***************************************************************************)
Ret(v) == [raised |-> FALSE, exc |-> <<>>, val |-> v]
Raise(msg) == [raised |-> TRUE, exc |-> msg, val |-> <<>>]

\* (mutant) no except clause: what the body raises leaves the tool
CatchNothing(r, prefix) == r

\* try: ... except Exception as e: return prefix + str(e)
Catch(r, prefix) == IF r.raised THEN Ret(prefix \o r.exc) ELSE r

(***************************************************************************)
(* make_polygon_request                                                    *)
(***************************************************************************)
BASE_URL == "https://api.polygon.io"

\* the params argument: None (not given) or a mapping
NoParams == [given |-> FALSE, map |-> <<>>]
Params(m) == [given |-> TRUE, map |-> m]

\* (mutant) params.setdefault("apikey", ...): a caller's apikey is kept
InjectKeyIfMissing(params) ==
    LET p == IF ~params.given \/ DOMAIN params.map = {} THEN <<>> ELSE params.map
    IN  [k \in DOMAIN p \cup {"apikey"} |-> IF k \in DOMAIN p THEN p[k] ELSE POLYGON_API_KEY]

\* if not params: params = {};  params["apikey"] = POLYGON_API_KEY
InjectKey(params) ==
    LET p == IF ~params.given \/ DOMAIN params.map = {} THEN <<>> ELSE params.map
    IN  [k \in DOMAIN p \cup {"apikey"} |-> IF k = "apikey" THEN POLYGON_API_KEY ELSE p[k]]

\* (mutant) any 2xx status is taken for a success
StatusAccepted2xx(http) == http \in 200..299

\* response.status == 200
StatusAccepted(http) == http = 200

make_polygon_request(endpoint, params, resp) ==
    LET req == [url |-> <<BASE_URL>> \o endpoint, params |-> InjectKey(params)]
        out == IF resp.kind = "failure"
               THEN Raise(<<"Cannot", "connect", "to", "host">>)
               ELSE IF StatusAccepted(resp.http)
                    THEN Ret(resp.body)
                    ELSE Raise(<<"API", "request", "failed", "with", "status",
                                 ToString(resp.http) \o ":", resp.text>>)
    IN  [request |-> req, out |-> out]

(***************************************************************************)
(* GetStockPrice                                                           *)
(***************************************************************************)
\* (mutant) "DELAYED" is not accepted
AggStatusOkOnly(status) == status = "OK"

\* status == "OK" or status == "DELAYED"
AggStatusAccepted(status) == status = "OK" \/ status = "DELAYED"

\* "up" if change_val > 0 else "down" if change_val < 0 else "flat"
ChangeDirection(change_val) ==
    IF change_val > 0 THEN "[up]" ELSE IF change_val < 0 THEN "[down]" ELSE "[flat]"

\* change_info once open and close are numbers and open is not 0
ChangeInfo(open_price, close_price) ==
    LET change_val == close_price - open_price
        change_pct == RoundDiv(change_val * 10000, open_price)
    IN  <<"Change:", "$" \o Fmt2f(change_val), "(" \o Fmt2f(change_pct) \o "%)",
          ChangeDirection(change_val)>>

\* f"{volume:,}" if volume != "N/A" else "N/A"
VolumeFormatted(bar) == IF Has(bar, "v") THEN FmtCommas(bar.v) ELSE NA

FormatCodeError == <<"Unknown", "format", "code", "'f'", "for", "object", "of", "type", "'str'">>

\* the success branch, from the last bar of the results
PriceReport(symbol, result_data) ==
    LET trade_date == IF Has(result_data, "t") THEN FmtDate(result_data.t) ELSE NA
        both == Has(result_data, "o") /\ Has(result_data, "c")
    IN  IF both /\ result_data.o = 0
        THEN Raise(<<"division", "by", "zero">>)
        ELSE IF \E k \in {"o", "h", "l", "c"} : ~Has(result_data, k)
        THEN Raise(FormatCodeError)
        ELSE Ret(<<"[chart]", "**", Str(Upper(symbol)), "**", "-", trade_date,
                   "[money]", "**Price", "Data:**",
                   "Open:", "$" \o Fmt2f(result_data.o),
                   "High:", "$" \o Fmt2f(result_data.h),
                   "Low:", "$" \o Fmt2f(result_data.l),
                   "Close:", "$" \o Fmt2f(result_data.c),
                   "[up]", "**Performance:**">>
                 \o ChangeInfo(result_data.o, result_data.c)
                 \o <<"[chart]", "**Volume:**", VolumeFormatted(result_data), "shares",
                      "[info]", "*Data", "from", "most", "recent", "trading", "day*">>)

\* the body of the try block, after the request
PriceBody(symbol, data) ==
    IF AggStatusAccepted(data.status) /\ Truthy(data.results)
    THEN IF data.results.shape = "list"
         THEN PriceReport(symbol, Last(data.results.items))
         ELSE Raise(<<"-1">>)
    ELSE Ret(<<"[X]", "Error:", "Could", "not", "retrieve", "data", "for",
               Str(Upper(symbol)) \o ".",
               "Status:", GetOr(data.status, "Unknown"),
               "Message:", GetOr(data.error, "No additional info")>>)

\* /v2/aggs/ticker/{SYMBOL}/range/1/{timespan}/{start_date}/{end_date}
AggEndpoint(symbol, timespan, now, days) ==
    <<"v2", "aggs", "ticker", Str(Upper(symbol)), "range", "1", timespan,
      FmtDay(now - days), FmtDay(now)>>

get_stock_price(symbol, now, resp) ==
    LET f == make_polygon_request(AggEndpoint(symbol, "day", now, 5), NoParams, resp)
        r == IF f.out.raised THEN f.out ELSE PriceBody(symbol, f.out.val)
    IN  [request |-> f.request, fetched |-> f.out,
         result |-> Catch(r, <<"[X]", "Error", "fetching", "stock", "price", "for",
                              Str(Upper(symbol)) \o ":">>)]

(***************************************************************************)
(* GetStockDetails                                                         *)
(***************************************************************************)
\* (mutant) the status is not looked at
RefStatusAny(status) == TRUE

\* status == "OK"
RefStatusAccepted(status) == status = "OK"

\* ticker.get(key, 'N/A') in an f-string, for the keys holding a text or a boolean
TextOr(obj, k) ==
    IF ~Has(obj, k) THEN NA
    ELSE IF k = "active" THEN PyBool(obj[k]) ELSE obj[k]

\* obj.get('description', 'N/A')[:n], as characters
DescriptionOr(obj, n) ==
    Take(IF Has(obj, "description") THEN obj.description ELSE <<"N", "/", "A">>, n)

DetailsReport(ticker) ==
    IF ~Has(ticker, "market_cap")
    THEN Raise(<<"Cannot", "specify", "','", "with", "'s'.">>)
    ELSE Ret(<<"Company:", TextOr(ticker, "name"),
               "Symbol:", TextOr(ticker, "ticker"),
               "Market:", TextOr(ticker, "market"),
               "Primary", "Exchange:", TextOr(ticker, "primary_exchange"),
               "Type:", TextOr(ticker, "type"),
               "Currency:", TextOr(ticker, "currency_name"),
               "Active:", TextOr(ticker, "active"),
               "Homepage:", TextOr(ticker, "homepage_url"),
               "Description:">>
             \o DescriptionOr(ticker, 200)
             \o <<"...", "Market", "Cap:", "$" \o FmtCommas(ticker.market_cap),
                  "(if", "available)">>)

DetailsBody(symbol, data) ==
    IF RefStatusAccepted(data.status) /\ Truthy(data.results)
    THEN IF data.results.shape = "object"
         THEN DetailsReport(data.results.items[1])
         ELSE Raise(<<"'list'", "object", "has", "no", "attribute", "'get'">>)
    ELSE Ret(<<"Error:", "Could", "not", "retrieve", "details", "for", Str(symbol)>>)

get_stock_details(symbol, resp) ==
    LET f == make_polygon_request(<<"v3", "reference", "tickers", Str(Upper(symbol))>>,
                                  NoParams, resp)
        r == IF f.out.raised THEN f.out ELSE DetailsBody(symbol, f.out.val)
    IN  [request |-> f.request, fetched |-> f.out,
         result |-> Catch(r, <<"Error", "fetching", "stock", "details:">>)]

(***************************************************************************)
(* GetStockNews                                                            *)
(***************************************************************************)
StrHasNoGet == <<"'str'", "object", "has", "no", "attribute", "'get'">>

\* the lines of item number i
NewsItem(i, item) ==
    <<ToString(i) \o ".", TextOr(item, "title"),
      "Author:", TextOr(item, "author"), "|", "Published:", TextOr(item, "published_utc"),
      "Description:">>
    \o DescriptionOr(item, 150)
    \o <<"...", "URL:", TextOr(item, "article_url")>>

\* for i, item in enumerate(news_items, 1): result += ...
RECURSIVE NewsItems(_, _)
NewsItems(items, i) ==
    IF i > Len(items) THEN <<>> ELSE NewsItem(i, items[i]) \o NewsItems(items, i + 1)

NewsBody(symbol, data) ==
    IF RefStatusAccepted(data.status) /\ Truthy(data.results)
    THEN IF data.results.shape = "list"
         THEN Ret(<<"Recent", "news", "for", Str(Upper(symbol)), ":">>
                  \o NewsItems(data.results.items, 1))
         ELSE Raise(StrHasNoGet)
    ELSE Ret(<<"Error:", "Could", "not", "retrieve", "news", "for", Str(symbol)>>)

get_stock_news(symbol, limit, resp) ==
    LET params == [ticker |-> Str(Upper(symbol)), limit |-> ToString(limit),
                   sort |-> "published_utc", order |-> "desc"]
        f == make_polygon_request(<<"v2", "reference", "news">>, Params(params), resp)
        r == IF f.out.raised THEN f.out ELSE NewsBody(symbol, f.out.val)
    IN  [request |-> f.request, fetched |-> f.out,
         result |-> Catch(r, <<"Error", "fetching", "stock", "news:">>)]

(***************************************************************************)
(* SearchStocks                                                            *)
(***************************************************************************)
SearchItem(i, match) ==
    <<ToString(i) \o ".", TextOr(match, "ticker"), "-", TextOr(match, "name"),
      "Market:", TextOr(match, "market"), "|", "Exchange:", TextOr(match, "primary_exchange")>>

RECURSIVE SearchItems(_, _)
SearchItems(matches, i) ==
    IF i > Len(matches) THEN <<>> ELSE SearchItem(i, matches[i]) \o SearchItems(matches, i + 1)

SearchBody(query, data) ==
    IF RefStatusAccepted(data.status) /\ Truthy(data.results)
    THEN IF data.results.shape = "list"
         THEN Ret(<<"Search", "results", "for", "'", query, "'", ":">>
                  \o SearchItems(data.results.items, 1))
         ELSE Raise(StrHasNoGet)
    ELSE Ret(<<"No", "results", "found", "for", "'", query, "'">>)

search_stocks(query, limit, resp) ==
    LET params == [search |-> query, limit |-> ToString(limit), active |-> "true"]
        f == make_polygon_request(<<"v3", "reference", "tickers">>, Params(params), resp)
        r == IF f.out.raised THEN f.out ELSE SearchBody(query, f.out.val)
    IN  [request |-> f.request, fetched |-> f.out,
         result |-> Catch(r, <<"Error", "searching", "stocks:">>)]

(***************************************************************************)
(* GetMarketStatus                                                         *)
(***************************************************************************)
MarketBody(data) ==
    IF data.market = "open" THEN Ret(<<"[green]", "Market", "is", "currently", "OPEN">>)
    ELSE IF data.market = "closed" THEN Ret(<<"[red]", "Market", "is", "currently", "CLOSED">>)
    ELSE Ret(<<"Market", "status:", GetOr(data.market, "Unknown")>>)

get_market_status(resp) ==
    LET f == make_polygon_request(<<"v1", "marketstatus", "now">>, NoParams, resp)
        r == IF f.out.raised THEN f.out ELSE MarketBody(f.out.val)
    IN  [request |-> f.request, fetched |-> f.out,
         result |-> Catch(r, <<"Error", "fetching", "market", "status:">>)]

(***************************************************************************)
(* GetStockBars                                                            *)
(***************************************************************************)
\* data["results"][-limit:]
RecentBars(results, limit) == SliceFrom(results, -limit)

\* the first key the loop body reads that the bar lacks: bar["t"], then
\* bar['o'], bar['h'], bar['l'], bar['c'], then bar['v']
BarReadOrder == <<"t", "o", "h", "l", "c", "v">>
FirstMissing(bar) ==
    LET missing == {i \in 1..Len(BarReadOrder) : ~Has(bar, BarReadOrder[i])}
    IN  IF missing = {} THEN Absent
        ELSE BarReadOrder[CHOOSE i \in missing : \A j \in missing : i <= j]

BarLines(bar) ==
    <<"Date:", FmtDateTime(bar.t),
      "Open:", "$" \o Fmt2f(bar.o), "|", "High:", "$" \o Fmt2f(bar.h), "|",
      "Low:", "$" \o Fmt2f(bar.l), "|", "Close:", "$" \o Fmt2f(bar.c),
      "Volume:", FmtCommas(bar.v), "shares">>

\* for bar in bars: result += ...; a bar lacking a key raises KeyError there
RECURSIVE BarsLoop(_, _, _)
BarsLoop(bars, i, acc) ==
    IF i > Len(bars) THEN Ret(acc)
    ELSE IF FirstMissing(bars[i]) # Absent
         THEN Raise(<<"'" \o FirstMissing(bars[i]) \o "'">>)
         ELSE BarsLoop(bars, i + 1, acc \o BarLines(bars[i]))

\* what slicing a dict raises: TypeError before Python 3.12, KeyError from 3.12 on
DictSliceErrors == {<<"unhashable", "type:", "'slice'">>, <<"slice(...)">>}

BarsBody(symbol, timespan, limit, sliceErr, data) ==
    IF AggStatusAccepted(data.status) /\ Truthy(data.results)
    THEN IF data.results.shape = "list"
         THEN BarsLoop(RecentBars(data.results.items, limit), 1,
                       <<"Recent", timespan, "bars", "for", Str(Upper(symbol)), ":">>)
         ELSE Raise(sliceErr)
    ELSE Ret(<<"Error:", "Could", "not", "retrieve", "bars", "for", Str(symbol)>>)

get_stock_bars(symbol, timespan, limit, now, sliceErr, resp) ==
    LET f == make_polygon_request(AggEndpoint(symbol, timespan, now, 30),
                                  Params([limit |-> ToString(limit)]), resp)
        r == IF f.out.raised THEN f.out
             ELSE BarsBody(symbol, timespan, limit, sliceErr, f.out.val)
    IN  [request |-> f.request, fetched |-> f.out,
         result |-> Catch(r, <<"Error", "fetching", "stock", "bars:">>)]

(***************************************************************************)
(* The process: start-up of server.py, then one invocation at a time.      *)
(* Invocations share no state, so serving them one after another loses     *)
(* nothing.                                                                *)
(***************************************************************************)
ToolNames == {"GetStockPrice", "GetStockDetails", "GetStockNews", "SearchStocks",
              "GetMarketStatus", "GetStockBars"}

EnvValues == {Unset, "", "k1"}
DotenvValues == {Unset, "", "k2"}

\* what the callers pass, and what the clock reads
Queries == {"Apple", "zzz"}
Timespans == {"day", "hour"}
BarLimits == -1..(MaxBars + 1)
ItemLimits == {1, 10}
NowValues == {19723, 19724}

IdleCall == [op |-> "idle", symbol |-> <<>>, query |-> "", timespan |-> "", limit |-> 0,
             now |-> 0]
NoRequest == [url |-> <<>>, params |-> <<>>]
NoResult == Ret(<<>>)

Init ==
    /\ envAtStart \in EnvValues
    /\ dotenvFile \in DotenvValues
    /\ osEnviron = envAtStart
    /\ POLYGON_API_KEY = Unbound
    /\ pc = "start"
    /\ registry = {}
    /\ call = IdleCall
    /\ request = NoRequest
    /\ response = NoResponse
    /\ fetched = NoResult
    /\ result = NoResult

\* load_dotenv(): a variable of the .env file is set unless the environment holds it
LoadDotenv ==
    /\ pc = "start"
    /\ osEnviron' = IF osEnviron = Unset /\ dotenvFile # Unset THEN dotenvFile ELSE osEnviron
    /\ pc' = "dotenv_loaded"
    /\ UNCHANGED <<envAtStart, dotenvFile, POLYGON_API_KEY, registry, call, request,
                   response, fetched, result>>

\* (mutant) the check of the key is gone
KeyMissingNever(key) == FALSE

\* if not POLYGON_API_KEY: raise ValueError(...)
KeyMissing(key) == key = ""

\* POLYGON_API_KEY = os.getenv("POLYGON_API_KEY", ""), and the check after it
ReadApiKey ==
    /\ pc = "dotenv_loaded"
    /\ POLYGON_API_KEY' = IF osEnviron = Unset THEN "" ELSE osEnviron
    /\ pc' = IF KeyMissing(POLYGON_API_KEY') THEN "config_error" ELSE "imported"
    /\ UNCHANGED <<envAtStart, dotenvFile, osEnviron, registry, call, request,
                   response, fetched, result>>

\* mcp = FastMCP(...)
CreateServer ==
    /\ pc = "imported"
    /\ pc' = "created"
    /\ UNCHANGED <<envAtStart, dotenvFile, osEnviron, POLYGON_API_KEY, registry, call,
                   request, response, fetched, result>>

\* register_stock_tools(mcp)
register_stock_tools ==
    /\ pc = "created"
    /\ registry' = registry \cup ToolNames
    /\ pc' = "registered"
    /\ UNCHANGED <<envAtStart, dotenvFile, osEnviron, POLYGON_API_KEY, call, request,
                   response, fetched, result>>

\* mcp.run(transport="stdio")
Run ==
    /\ pc = "registered"
    /\ pc' = "serving"
    /\ UNCHANGED <<envAtStart, dotenvFile, osEnviron, POLYGON_API_KEY, registry, call,
                   request, response, fetched, result>>

\* the host may invoke the tool of this name
CanServe(name) == pc = "serving" /\ name \in registry /\ call.op = "idle"

\* one invocation, from the host's call to the tool's return
Serve(c, resp, done) ==
    /\ call' = c
    /\ response' = resp
    /\ request' = done.request
    /\ fetched' = done.fetched
    /\ result' = done.result
    /\ UNCHANGED <<envAtStart, dotenvFile, osEnviron, POLYGON_API_KEY, pc, registry>>

GetStockPrice ==
    /\ CanServe("GetStockPrice")
    /\ \E symbol \in Symbols, now \in NowValues, up \in AggOutcomes({Absent, "Rate limited"}) :
         LET resp == Response(up, AllBars)
         IN  Serve([IdleCall EXCEPT !.op = "GetStockPrice", !.symbol = symbol, !.now = now],
                   resp, get_stock_price(symbol, now, resp))

GetStockDetails ==
    /\ CanServe("GetStockDetails")
    /\ \E symbol \in Symbols, up \in DetailsOutcomes :
         LET resp == Response(up, AllTickers)
         IN  Serve([IdleCall EXCEPT !.op = "GetStockDetails", !.symbol = symbol],
                   resp, get_stock_details(symbol, resp))

GetStockNews ==
    /\ CanServe("GetStockNews")
    /\ \E symbol \in Symbols, limit \in ItemLimits, up \in ItemOutcomes(Len(AllArticles)) :
         LET resp == Response(up, AllArticles)
         IN  Serve([IdleCall EXCEPT !.op = "GetStockNews", !.symbol = symbol, !.limit = limit],
                   resp, get_stock_news(symbol, limit, resp))

SearchStocks ==
    /\ CanServe("SearchStocks")
    /\ \E query \in Queries, limit \in ItemLimits, up \in ItemOutcomes(Len(AllMatches)) :
         LET resp == Response(up, AllMatches)
         IN  Serve([IdleCall EXCEPT !.op = "SearchStocks", !.query = query, !.limit = limit],
                   resp, search_stocks(query, limit, resp))

GetMarketStatus ==
    /\ CanServe("GetMarketStatus")
    /\ \E up \in MarketOutcomes :
         LET resp == Response(up, <<JunkObject>>)
         IN  Serve([IdleCall EXCEPT !.op = "GetMarketStatus"], resp, get_market_status(resp))

GetStockBars ==
    /\ CanServe("GetStockBars")
    /\ \E symbol \in Symbols, timespan \in Timespans, limit \in BarLimits, now \in NowValues,
          up \in AggOutcomes({Absent}) :
         \E sliceErr \in IF up.shape = "object" THEN DictSliceErrors
                         ELSE {<<"unhashable", "type:", "'slice'">>} :
           LET resp == Response(up, AllBars)
           IN  Serve([IdleCall EXCEPT !.op = "GetStockBars", !.symbol = symbol,
                                      !.timespan = timespan, !.limit = limit, !.now = now],
                     resp, get_stock_bars(symbol, timespan, limit, now, sliceErr, resp))

\* the host hands the tool's text to the client; the invocation is over
Deliver ==
    /\ pc = "serving"
    /\ call.op \in ToolNames
    /\ call' = IdleCall
    /\ request' = NoRequest
    /\ response' = NoResponse
    /\ fetched' = NoResult
    /\ result' = NoResult
    /\ UNCHANGED <<envAtStart, dotenvFile, osEnviron, POLYGON_API_KEY, pc, registry>>

Next ==
    \/ LoadDotenv
    \/ ReadApiKey
    \/ CreateServer
    \/ register_stock_tools
    \/ Run
    \/ GetStockPrice
    \/ GetStockDetails
    \/ GetStockNews
    \/ SearchStocks
    \/ GetMarketStatus
    \/ GetStockBars
    \/ Deliver

Spec == Init /\ [][Next]_vars

(***************************************************************************)
(* make_polygon_request called on its own: tools/polygon.py exports it, so *)
(* any importer may call it with params of its choosing.  SpecAdapter is   *)
(* the process together with such a caller.                                *)
(***************************************************************************)
AdapterKeys == {"apikey", "limit", "search"}
AdapterValues == {"caller-key", "5"}
AdapterMaps == UNION {[D -> AdapterValues] : D \in SUBSET AdapterKeys}

AdapterCall ==
    /\ pc \in {"imported", "created", "registered", "serving"}
    /\ call.op = "idle"
    /\ \E given \in BOOLEAN, m \in AdapterMaps, up \in MarketOutcomes :
         /\ ~given => m = <<>>
         /\ LET resp == Response(up, <<JunkObject>>)
                endpoint == <<"v1", "marketstatus", "now">>
                params == [given |-> given, map |-> m]
                f == make_polygon_request(endpoint, params, resp)
            IN  /\ call' = [op |-> "make_polygon_request", endpoint |-> endpoint,
                            params |-> params]
                /\ response' = resp
                /\ request' = f.request
                /\ fetched' = f.out
    /\ UNCHANGED <<envAtStart, dotenvFile, osEnviron, POLYGON_API_KEY, pc, registry, result>>

\* the direct caller is done with what it got
AdapterReturn ==
    /\ call.op = "make_polygon_request"
    /\ call' = IdleCall
    /\ request' = NoRequest
    /\ response' = NoResponse
    /\ fetched' = NoResult
    /\ UNCHANGED <<envAtStart, dotenvFile, osEnviron, POLYGON_API_KEY, pc, registry, result>>

NextAdapter == Next \/ AdapterCall \/ AdapterReturn

SpecAdapter == Init /\ [][NextAdapter]_vars

(***************************************************************************)
(* Reading a state.                                                        *)
(***************************************************************************)
\* a tool has returned and the host has not yet handed its text on
Served == call.op \in ToolNames

SymbolOps == {"GetStockPrice", "GetStockDetails", "GetStockNews", "GetStockBars"}

Contains(text, tok) == \E i \in DOMAIN text : text[i] = tok

ContainsSeq(text, sub) ==
    \E i \in 0..(Len(text) - Len(sub)) : SubSeq(text, i + 1, i + Len(sub)) = sub

StartsWith(text, prefix) == Len(text) >= Len(prefix) /\ SubSeq(text, 1, Len(prefix)) = prefix

\* the upstream answered HTTP 200, so that response.body is the JSON document
Answered200 == response.kind = "http" /\ response.http = 200

\* the results of the body are present and not empty
ResultsNonEmpty ==
    /\ response.body.results.shape # "absent"
    /\ response.body.results.items # <<>>
    /\ response.body.results.shape = "object" => DOMAIN response.body.results.items[1] # {}

\* the results have the shape the endpoint documents: an object for the
\* ticker details, a list for the others
ResultsWellShaped ==
    response.body.results.shape = (IF call.op = "GetStockDetails" THEN "object" ELSE "list")

\* the text begins like the success report of the operation
IsSuccessReport(op, text) ==
    CASE op = "GetStockPrice" -> StartsWith(text, <<"[chart]", "**">>)
      [] op = "GetStockDetails" -> StartsWith(text, <<"Company:">>)
      [] op = "GetStockNews" -> StartsWith(text, <<"Recent", "news", "for">>)
      [] op = "SearchStocks" -> StartsWith(text, <<"Search", "results", "for">>)
      [] op = "GetStockBars" -> StartsWith(text, <<"Recent">>) /\ Contains(text, "bars")
      [] OTHER -> FALSE

\* the text is the data-unavailable text of the operation
IsNotAvailable(op, text) ==
    CASE op = "GetStockPrice" ->
           StartsWith(text, <<"[X]", "Error:", "Could", "not", "retrieve", "data", "for">>)
      [] op = "GetStockDetails" ->
           StartsWith(text, <<"Error:", "Could", "not", "retrieve", "details", "for">>)
      [] op = "GetStockNews" ->
           StartsWith(text, <<"Error:", "Could", "not", "retrieve", "news", "for">>)
      [] op = "SearchStocks" -> StartsWith(text, <<"No", "results", "found", "for">>)
      [] op = "GetStockBars" ->
           StartsWith(text, <<"Error:", "Could", "not", "retrieve", "bars", "for">>)
      [] OTHER -> FALSE

\* the text holds the word "error" or the words "could not retrieve", in any casing
HasErrorMarker(text) ==
    \/ \E w \in {"Error", "Error:", "error", "error:", "ERROR", "ERROR:"} : Contains(text, w)
    \/ \E a \in {"Could", "could"} : ContainsSeq(text, <<a, "not", "retrieve">>)

(***************************************************************************)
(* The claims.                                                             *)
(***************************************************************************)

\* C1: whatever the input and whatever the upstream did (HTTP 200 with a JSON
\* object, another status, a network failure), each of the six tools ends by
\* returning a text that is not empty; nothing it raises reaches the host.
C1_ReturnsText == Served => ~result.raised /\ Len(result.val) > 0

\* C1's case: the network failed under a tool, and the tool returned a text
C1_Witness ==
    /\ call.op = "GetStockBars"
    /\ response.kind = "failure"
    /\ fetched.raised
    /\ ~result.raised
    /\ StartsWith(result.val, <<"Error", "fetching", "stock", "bars:">>)

\* C2 as stated: for all six tools, HTTP 200 with a status other than "OK", or
\* with results empty or absent, gives a text with an "error" / "could not
\* retrieve" marker, and nothing is raised.
C2_Original ==
    (Served /\ Answered200 /\ (response.body.status # "OK" \/ ~ResultsNonEmpty))
        => ~result.raised /\ HasErrorMarker(result.val)

\* the status the operation accepts, written out
C2_StatusAccepted ==
    \/ response.body.status = "OK"
    \/ call.op \in {"GetStockPrice", "GetStockBars"} /\ response.body.status = "DELAYED"

\* C2 as amended: for GetStockPrice, GetStockDetails, GetStockNews and
\* GetStockBars, HTTP 200 with a status the operation does not accept ("OK",
\* and for GetStockPrice and GetStockBars also "DELAYED"), or with results
\* empty or absent, gives a text holding both "Error:" and "Could not
\* retrieve", and nothing is raised; SearchStocks then returns "No results
\* found for '<query>'", which holds no such marker; GetMarketStatus looks at
\* neither the status nor the results.
C2_Amended ==
    (Served /\ Answered200)
        => /\ ~result.raised
           /\ (call.op \in SymbolOps /\ (~C2_StatusAccepted \/ ~ResultsNonEmpty))
                => /\ Contains(result.val, "Error:")
                   /\ ContainsSeq(result.val, <<"Could", "not", "retrieve">>)
           /\ (call.op = "SearchStocks" /\ (~C2_StatusAccepted \/ ~ResultsNonEmpty))
                => /\ result.val = <<"No", "results", "found", "for", "'", call.query, "'">>
                   /\ ~HasErrorMarker(result.val)
           /\ call.op = "GetMarketStatus"
                => result.val = (CASE response.body.market = "open" ->
                                        <<"[green]", "Market", "is", "currently", "OPEN">>
                                   [] response.body.market = "closed" ->
                                        <<"[red]", "Market", "is", "currently", "CLOSED">>
                                   [] response.body.market = Absent ->
                                        <<"Market", "status:", "Unknown">>
                                   [] OTHER -> <<"Market", "status:", response.body.market>>)

\* C2's case: the ticker details answered with status "ERROR" and results present
C2_Witness ==
    /\ call.op = "GetStockDetails"
    /\ Answered200
    /\ response.body.status = "ERROR"
    /\ ResultsNonEmpty
    /\ HasErrorMarker(result.val)

\* the token writes the symbol v, alone or followed by the punctuation of the literals
Mentions(tok, v) == tok \in {Str(v), Str(v) \o ".", Str(v) \o ":"}

\* the request names the symbol uppercased: in the path, or as the ticker parameter
RequestNamesUpper ==
    IF call.op = "GetStockNews"
    THEN "ticker" \in DOMAIN request.params /\ request.params.ticker = Str(Upper(call.symbol))
    ELSE Contains(request.url, Str(Upper(call.symbol)))
         /\ (call.symbol # Upper(call.symbol) => ~Contains(request.url, Str(call.symbol)))

\* C3 as stated: for the four tools taking a symbol, in any letter case, the
\* symbol is uppercased in the request and wherever the returned text writes
\* it, on the success branch and on every error branch.
C3_Original ==
    (Served /\ call.op \in SymbolOps)
        => /\ RequestNamesUpper
           /\ call.symbol # Upper(call.symbol)
                => \A i \in DOMAIN result.val : ~Mentions(result.val[i], call.symbol)

\* the bars of a response, complete (no key missing)
CompleteBars(bars) == \A i \in DOMAIN bars : \A k \in {"o", "h", "l", "c", "v", "t"} : Has(bars[i], k)

\* the lines C4 expects for the bars from position i on
RECURSIVE C4_Lines(_, _)
C4_Lines(bars, i) ==
    IF i > Len(bars) THEN <<>>
    ELSE <<"Date:", FmtDateTime(bars[i].t),
           "Open:", "$" \o Fmt2f(bars[i].o), "|", "High:", "$" \o Fmt2f(bars[i].h), "|",
           "Low:", "$" \o Fmt2f(bars[i].l), "|", "Close:", "$" \o Fmt2f(bars[i].c),
           "Volume:", FmtCommas(bars[i].v), "shares">> \o C4_Lines(bars, i + 1)

\* C4 as stated: for any limit N and a successful response of M bars,
\* GetStockBars reports exactly min(N, M) bars (none when that is below 1),
\* the last ones of the response, in the order of the response.
C4_Original ==
    (/\ call.op = "GetStockBars"
     /\ Answered200
     /\ response.body.status \in {"OK", "DELAYED"}
     /\ response.body.results.shape = "list"
     /\ response.body.results.items # <<>>
     /\ CompleteBars(response.body.results.items))
        => LET bars == response.body.results.items
               n == Max(0, Min(call.limit, Len(bars)))
           IN  /\ ~result.raised
               /\ result.val = <<"Recent", call.timespan, "bars", "for",
                                 Str(Upper(call.symbol)), ":">>
                               \o C4_Lines(bars, Len(bars) - n + 1)

\* C5: make_polygon_request returns the parsed JSON body exactly when the HTTP
\* status is 200; on any other status it raises an error whose text holds the
\* status code and the raw body, and the tool that called it returns an error
\* text holding that text.
C5_AdapterStatus ==
    Served
        => /\ ~fetched.raised <=> (response.kind = "http" /\ response.http = 200)
           /\ ~fetched.raised => fetched.val = response.body
           /\ (response.kind = "http" /\ response.http # 200)
                => /\ Contains(fetched.exc, ToString(response.http) \o ":")
                   /\ Last(fetched.exc) = response.text
                   /\ ~result.raised
                   /\ ContainsSeq(result.val, fetched.exc)
                   /\ HasErrorMarker(result.val)

\* C5's case: the upstream answered 404 with a body, and the tool returned the error text
C5_Witness ==
    /\ Served
    /\ response.kind = "http"
    /\ response.http = 404
    /\ response.text = "Not Found"
    /\ fetched.raised
    /\ ContainsSeq(result.val, <<"status", "404:", "Not Found">>)

\* C6: every request make_polygon_request issues carries the process's API key
\* as the parameter apikey, whether params was absent, empty, or a mapping
\* with an apikey of the caller's, which the configured key replaces; every
\* other parameter of the caller is sent as given.
C6_KeyInjected ==
    /\ (Served \/ call.op = "make_polygon_request")
         => /\ "apikey" \in DOMAIN request.params
            /\ request.params.apikey = POLYGON_API_KEY
    /\ call.op = "make_polygon_request"
         => /\ DOMAIN request.params = DOMAIN call.params.map \cup {"apikey"}
            /\ \A k \in DOMAIN call.params.map \ {"apikey"} :
                 request.params[k] = call.params.map[k]

\* C6's case: the caller passed an apikey of its own beside another parameter
C6_Witness ==
    /\ call.op = "make_polygon_request"
    /\ call.params.given
    /\ DOMAIN call.params.map = {"apikey", "limit"}
    /\ call.params.map.apikey = "caller-key"
    /\ request.params.apikey = POLYGON_API_KEY
    /\ request.params.limit = call.params.map.limit

\* no tool is registered, none is being served, and no request has gone out
NothingServed == registry = {} /\ call.op \notin ToolNames /\ request.url = <<>>

\* C7 as stated: when the environment variable is absent or empty at process
\* start, initialization fails before any tool is registered, and nothing is
\* ever served or requested.
C7_Original ==
    envAtStart \in {Unset, ""} => NothingServed /\ pc \in {"start", "dotenv_loaded", "config_error"}

\* the states of C7 as amended
C7_State ==
    /\ (pc # "start" /\ osEnviron \in {Unset, ""})
         => NothingServed /\ pc \in {"dotenv_loaded", "config_error"}
    /\ pc = "config_error" => NothingServed
    /\ (registry # {} \/ Served)
         => /\ POLYGON_API_KEY \notin {"", Unbound}
            /\ POLYGON_API_KEY = osEnviron
            /\ Served => request.params.apikey = POLYGON_API_KEY

\* C7 as amended: when the variable is absent or empty in the environment once
\* load_dotenv() has filled it from the .env file (which sets a variable the
\* environment does not hold, and leaves one it holds, even empty),
\* initialization fails with the configuration error before any tool is
\* registered, and nothing is ever served or requested; wherever a tool is
\* registered or served the key is not empty, and once read it never changes.
C7_Amended ==
    /\ []C7_State
    /\ [][POLYGON_API_KEY # Unbound => POLYGON_API_KEY' = POLYGON_API_KEY]_vars

\* C7's case: no key in the environment nor in the .env file, and the start-up failed
C7_Witness ==
    /\ envAtStart = Unset
    /\ dotenvFile \in {Unset, ""}
    /\ pc = "config_error"
    /\ POLYGON_API_KEY = ""
    /\ registry = {}

\* the objects a success report is made from: the last bar (GetStockPrice),
\* the bars the limit keeps (GetStockBars), the ticker, the articles, the matches
C8_Objects ==
    LET res == response.body.results
    IN  CASE call.op = "GetStockPrice" -> <<Last(res.items)>>
          [] call.op = "GetStockBars" ->
               SubSeq(res.items, Len(res.items) - Min(Max(call.limit, 1), Len(res.items)) + 1,
                      Len(res.items))
          [] OTHER -> res.items

C8_Keys ==
    CASE call.op \in {"GetStockPrice", "GetStockBars"} -> {"o", "h", "l", "c", "v", "t"}
      [] call.op = "GetStockDetails" ->
           {"name", "ticker", "market", "primary_exchange", "type", "currency_name",
            "active", "homepage_url", "description", "market_cap"}
      [] call.op = "GetStockNews" ->
           {"title", "description", "author", "published_utc", "article_url"}
      [] OTHER -> {"ticker", "name", "market", "primary_exchange"}

\* the upstream answered with an accepted status and results that are
\* present, not empty and of the documented shape
C8_Success ==
    /\ Served
    /\ call.op # "GetMarketStatus"
    /\ Answered200
    /\ C2_StatusAccepted
    /\ ResultsNonEmpty
    /\ ResultsWellShaped

\* C8 as stated: on a successful response, a known key missing from a result
\* object is written "N/A" in a normal success report; the operation neither
\* fails nor takes its error branch.  (Bars opening at 0 are left aside: they
\* are C9's matter.)
C8_Original ==
    (/\ C8_Success
     /\ \E i \in DOMAIN C8_Objects : \E k \in C8_Keys : ~Has(C8_Objects[i], k)
     /\ \A i \in DOMAIN C8_Objects : Has(C8_Objects[i], "o") => C8_Objects[i].o # 0)
        => /\ ~result.raised
           /\ IsSuccessReport(call.op, result.val)
           /\ \/ Contains(result.val, NA)
              \/ ContainsSeq(result.val, <<"N", "/", "A">>)

\* C9 as stated: when the last bar of a successful response carries a numeric
\* open and close, GetStockPrice returns a price report of that bar with
\* change = close - open, change% = change / open * 100, and the rising,
\* falling or flat glyph as close is above, below or equal to open.
C9_Original ==
    (/\ call.op = "GetStockPrice"
     /\ Answered200
     /\ response.body.status \in {"OK", "DELAYED"}
     /\ response.body.results.shape = "list"
     /\ response.body.results.items # <<>>
     /\ Has(Last(response.body.results.items), "o")
     /\ Has(Last(response.body.results.items), "c"))
        => LET bar == Last(response.body.results.items)
               change == bar.c - bar.o
               glyph == IF bar.c > bar.o THEN "[up]"
                        ELSE IF bar.c < bar.o THEN "[down]" ELSE "[flat]"
           IN  /\ ~result.raised
               /\ IsSuccessReport("GetStockPrice", result.val)
               /\ \E i \in DOMAIN result.val :
                    /\ i + 3 <= Len(result.val)
                    /\ result.val[i] = "Change:"
                    /\ result.val[i + 1] = "$" \o Fmt2f(change)
                    /\ bar.o # 0 =>
                         result.val[i + 2] = "(" \o Fmt2f(RoundDiv(change * 10000, bar.o)) \o "%)"
                    /\ result.val[i + 3] = glyph

\* C10: the status decides the branch.  GetStockPrice and GetStockBars take
\* the success branch exactly when the status is "OK" or "DELAYED" and the
\* results are not empty; GetStockDetails, GetStockNews and SearchStocks
\* exactly when the status is "OK" and the results are present and not empty;
\* in every other case the operation returns its data-unavailable text.
C10_StatusDecides ==
    (Served /\ call.op # "GetMarketStatus" /\ Answered200)
        => LET accepted == IF call.op \in {"GetStockPrice", "GetStockBars"}
                           THEN response.body.status \in {"OK", "DELAYED"}
                           ELSE response.body.status = "OK"
           IN  /\ ~result.raised
               /\ IsNotAvailable(call.op, result.val) <=> ~(accepted /\ ResultsNonEmpty)
               /\ (accepted /\ ResultsNonEmpty)
                    => \/ IsSuccessReport(call.op, result.val)
                       \/ StartsWith(result.val, <<"Error", "fetching">>)
                       \/ StartsWith(result.val, <<"Error", "searching">>)
                       \/ StartsWith(result.val, <<"[X]", "Error", "fetching">>)

\* C10's case: the news answered "DELAYED" with articles, and the tool
\* returned its data-unavailable text
C10_Witness ==
    /\ call.op = "GetStockNews"
    /\ Answered200
    /\ response.body.status = "DELAYED"
    /\ ResultsNonEmpty
    /\ IsNotAvailable("GetStockNews", result.val)

====
